---- MODULE Spec2Model ----
(***************************************************************************)
(* A model of bugconf.py: the BugConf configuration store (layered load    *)
(* of a defaults file, a project file and command-line arguments, the      *)
(* selective dump, the build validation), the translation of a store      *)
(* into the argument vector of the reducer, the run of repro with its      *)
(* launcher and logs, and main.                                            *)
(*                                                                         *)
(* Python values are tagged tuples, so that values of different Python     *)
(* types can be compared: None, <<"bool", b>>, <<"int", n>>, <<"str", s>>. *)
(* A call that can raise returns a record whose field raised names the     *)
(* exception, "none" when the call returns normally.                       *)
(***************************************************************************)
EXTENDS Integers, Sequences, FiniteSets, TLC

VARIABLES
    values,     \* the option fields of the BugConf object (self.xvfb, self._build, ...)
    _defaults,  \* self._defaults: the options whose value came from the defaults file
    fresh,      \* a second BugConf object, the target of a reload of a dumped document
    fs,         \* the filesystem: directory path -> [entry name -> "dir" or "file"]
    last,       \* the last call made on the object: its name, inputs and outcome
    given,      \* history: option -> the value last handed to setattr for it by a loader
    src,        \* history: option -> what last assigned it: the defaults file or an override
    files,      \* the configuration files: ~/.bugconfrc, ~/.config/bugconf/config, ./bugconf
    run,        \* a run of main: its command line, its position and what it has done
    ffp         \* a run of repro: the launcher's calls, the saved logs and the log chosen

vars == <<values, _defaults, fresh, fs, last, given, src, files, run, ffp>>

(***************************************************************************)
(* Python values                                                           *)
(***************************************************************************)
None == <<"none">>
PyBool(b) == <<"bool", b>>
PyInt(n) == <<"int", n>>
PyStr(s) == <<"str", s>>

\* Python truthiness: None, False, 0 and "" are falsy.
Truthy(v) ==
    CASE v[1] = "none" -> FALSE
      [] v[1] = "bool" -> v[2]
      [] v[1] = "int" -> v[2] # 0
      [] v[1] = "str" -> v[2] # ""

Ok(v) == [raised |-> "none", val |-> v]
Raise(e) == [raised |-> e, val |-> None]

\* The characters the model's strings use, in code-point order.
CodeOrder == "-./0123456789ABCDEFGHIJKLMNOPQRSTUVWXYZ_abcdefghijklmnopqrstuvwxyz~"

CodePoints == [i \in 1..Len(CodeOrder) |-> SubSeq(CodeOrder, i, i)]

Ord(c) == CHOOSE i \in 1..Len(CodeOrder) : CodePoints[i] = c

\* Python's str.__lt__: lexicographic by code point.
RECURSIVE StrLess(_, _)
StrLess(a, b) ==
    IF Len(a) = 0 THEN Len(b) > 0
    ELSE IF Len(b) = 0 THEN FALSE
    ELSE LET ca == Ord(SubSeq(a, 1, 1))
             cb == Ord(SubSeq(b, 1, 1))
         IN IF ca # cb THEN ca < cb
            ELSE StrLess(SubSeq(a, 2, Len(a)), SubSeq(b, 2, Len(b)))

\* sorted(iterable of str): the elements in ascending order.
RECURSIVE sorted(_)
sorted(S) ==
    IF S = {} THEN <<>>
    ELSE LET m == CHOOSE x \in S : \A y \in S : x = y \/ StrLess(x, y)
         IN <<m>> \o sorted(S \ {m})

Elems(seq) == {seq[i] : i \in 1..Len(seq)}

\* The home directory os.path.expanduser substitutes for a leading "~".
HOME == "/home/u"

\* os.path.expanduser: "~" or "~/..." has the "~" replaced by the home
\* directory; "~name" of an unknown user and every other string are
\* returned as they are; a value that is not a string raises TypeError.
expanduser(path) ==
    IF path[1] # "str" THEN Raise("TypeError")
    ELSE LET s == path[2]
         IN IF Len(s) >= 1 /\ SubSeq(s, 1, 1) = "~"
               /\ (Len(s) = 1 \/ SubSeq(s, 2, 2) = "/")
            THEN Ok(PyStr(HOME \o SubSeq(s, 2, Len(s))))
            ELSE Ok(path)

\* os.path.join of two strings.
join2(a, b) ==
    IF Len(b) >= 1 /\ SubSeq(b, 1, 1) = "/" THEN b
    ELSE IF Len(a) = 0 \/ SubSeq(a, Len(a), Len(a)) = "/" THEN a \o b
    ELSE a \o "/" \o b

(***************************************************************************)
(* The option registry                                                     *)
(***************************************************************************)
\* BugConf._CONFIGS in the order of the dict literal: <<name, short, type>>.
_CONFIGS ==
    << <<"any_crash", "", "bool">>,
       <<"build", "b", "str">>,
       <<"buildpath", "bp", "str">>,
       <<"char", "c", "bool">>,
       <<"extension", "e", "bool">>,
       <<"extension_path", "", "str">>,
       <<"gdb", "g", "bool">>,
       <<"js", "j", "bool">>,
       <<"logfn", "l", "str">>,
       <<"memory", "m", "int">>,
       <<"min_crashes", "n", "int">>,
       <<"no_harness", "", "bool">>,
       <<"prefs", "p", "str">>,
       <<"reduce_file", "rf", "str">>,
       <<"reducer", "", "str">>,
       <<"repeat", "", "int">>,
       <<"safemode", "", "bool">>,
       <<"sig", "", "str">>,
       <<"skip", "", "int">>,
       <<"strategy", "", "str">>,
       <<"symbol", "", "bool">>,
       <<"timeout", "t", "int">>,
       <<"valgrind", "", "bool">>,
       <<"xvfb", "", "bool">> >>

ConfigNames == {_CONFIGS[i][1] : i \in 1..Len(_CONFIGS)}

Types == [cfg \in ConfigNames |->
             LET i == CHOOSE j \in 1..Len(_CONFIGS) : _CONFIGS[j][1] = cfg
             IN _CONFIGS[i][3]]

TypeOf(cfg) == Types[cfg]

\* The options whose property getter expands "~" on every read.
ExpandOnRead == {"buildpath", "extension_path", "logfn", "prefs", "reducer"}

\* The fields of a BugConf object as __init__ sets them, before the defaults
\* file is looked for.
__init__ == [cfg \in ConfigNames |-> None]

(***************************************************************************)
(* Properties: getattr and setattr                                         *)
(***************************************************************************)
\* getattr(self, cfg): the five expanding getters raise TypeError on None.
getattr(vals, cfg) ==
    IF cfg \in ExpandOnRead THEN expanduser(vals[cfg]) ELSE Ok(vals[cfg])

\* os.listdir(path): the entry names, or FileNotFoundError / NotADirectoryError.
listdir(fsys, path) ==
    IF path \in DOMAIN fsys THEN Ok(DOMAIN fsys[path])
    ELSE IF \E d \in DOMAIN fsys : \E n \in DOMAIN fsys[d] :
               fsys[d][n] = "file" /\ join2(d, n) = path
         THEN Raise("NotADirectoryError")
         ELSE Raise("FileNotFoundError")

\* list_builds: the sorted entries of the expanded build path.
list_builds(vals, fsys) ==
    LET bp == getattr(vals, "buildpath")
    IN IF bp.raised # "none" THEN bp
       ELSE LET ls == listdir(fsys, bp.val[2])
            IN IF ls.raised # "none" THEN ls ELSE Ok(sorted(ls.val))

\* The build setter: the value must be among list_builds().
set_build_unchecked(vals, fsys, value) ==
    [raised |-> "none", values |-> [vals EXCEPT !["build"] = value]]

set_build(vals, fsys, value) ==
    LET lb == list_builds(vals, fsys)
    IN IF lb.raised # "none" THEN [raised |-> lb.raised, values |-> vals]
       ELSE IF ~(\E i \in 1..Len(lb.val) : PyStr(lb.val[i]) = value)
       THEN [raised |-> "BuildNotFound", values |-> vals]
       ELSE [raised |-> "none", values |-> [vals EXCEPT !["build"] = value]]

\* The reduce_file setter: the value is expanded when it is stored.
set_reduce_file(vals, value) ==
    LET e == expanduser(value)
    IN IF e.raised # "none" THEN [raised |-> e.raised, values |-> vals]
       ELSE [raised |-> "none", values |-> [vals EXCEPT !["reduce_file"] = e.val]]

\* setattr(self, cfg, value) for a registered option.
setattr(vals, fsys, cfg, value) ==
    CASE cfg = "build" -> set_build(vals, fsys, value)
      [] cfg = "reduce_file" -> set_reduce_file(vals, value)
      [] OTHER -> [raised |-> "none", values |-> [vals EXCEPT ![cfg] = value]]

(***************************************************************************)
(* load, dump, load_args                                                   *)
(***************************************************************************)
\* The default-origin marking of load: add under _defaults, discard otherwise.
mark_noDiscard(defs, cfg, asDefaults) ==
    IF asDefaults THEN defs \cup {cfg} ELSE defs

mark(defs, cfg, asDefaults) ==
    IF asDefaults THEN defs \cup {cfg} ELSE defs \ {cfg}

\* The loop of load over obj.items(), from item i on; obj is the parsed JSON
\* object as the sequence of its <<key, value>> members in document order.
\* n counts the items that were assigned before the loop ended.
RECURSIVE load_from(_, _, _, _, _, _)
load_from(vals, defs, fsys, obj, i, asDefaults) ==
    IF i > Len(obj)
    THEN [raised |-> "none", values |-> vals, defaults |-> defs, n |-> Len(obj)]
    ELSE LET cfg == obj[i][1]
             value == obj[i][2]
         IN IF cfg \notin ConfigNames
            THEN [raised |-> "UnsupportedConfig", values |-> vals,
                  defaults |-> defs, n |-> i - 1]
            ELSE LET r == setattr(vals, fsys, cfg, value)
                 IN IF r.raised # "none"
                    THEN [raised |-> r.raised, values |-> vals,
                          defaults |-> defs, n |-> i - 1]
                    ELSE load_from(r.values, mark(defs, cfg, asDefaults),
                                   fsys, obj, i + 1, asDefaults)

load(vals, defs, fsys, obj, asDefaults) ==
    load_from(vals, defs, fsys, obj, 1, asDefaults)

\* dump's test for leaving an option out of the written object.
omitted(value, cfg, defs) == value = None \/ cfg \in defs

\* The loop of dump over _CONFIGS, from entry i on; obj is the dict built so
\* far, as the sequence of its items in insertion order.
RECURSIVE dump_from(_, _, _, _)
dump_from(vals, defs, i, obj) ==
    IF i > Len(_CONFIGS) THEN [raised |-> "none", obj |-> obj]
    ELSE LET cfg == _CONFIGS[i][1]
             g == getattr(vals, cfg)
         IN IF g.raised # "none" THEN [raised |-> g.raised, obj |-> <<>>]
            ELSE IF omitted(g.val, cfg, defs) THEN dump_from(vals, defs, i + 1, obj)
            ELSE dump_from(vals, defs, i + 1, Append(obj, <<cfg, g.val>>))

\* json.dump(obj, sort_keys=True): the members in ascending order of key.
sort_keys(obj) ==
    LET ks == sorted({obj[i][1] : i \in 1..Len(obj)})
        item(k) == CHOOSE p \in Elems(obj) : p[1] = k
    IN [i \in 1..Len(ks) |-> item(ks[i])]

\* dump: the document written to the file object, or the exception raised
\* before anything is written.
dump(vals, defs) ==
    LET r == dump_from(vals, defs, 1, <<>>)
    IN IF r.raised # "none" THEN [raised |-> r.raised, doc |-> <<>>]
       ELSE [raised |-> "none", doc |-> sort_keys(r.obj)]

\* load_args' test for applying an item of vars(args).
applies_truthy(cfg, value) == cfg \in ConfigNames /\ Truthy(value)

applies(cfg, value) == cfg \in ConfigNames /\ value # None

\* load_args' removal of an applied option from the default-origin set.
unmark_never(defs, cfg) == defs

unmark(defs, cfg) == defs \ {cfg}

\* The loop of load_args over vars(args).items(), from item i on.
RECURSIVE load_args_from(_, _, _, _, _)
load_args_from(vals, defs, fsys, obj, i) ==
    IF i > Len(obj)
    THEN [raised |-> "none", values |-> vals, defaults |-> defs, n |-> Len(obj)]
    ELSE LET cfg == obj[i][1]
             value == obj[i][2]
         IN IF applies(cfg, value)
            THEN LET r == setattr(vals, fsys, cfg, value)
                 IN IF r.raised # "none"
                    THEN [raised |-> r.raised, values |-> vals,
                          defaults |-> defs, n |-> i - 1]
                    ELSE load_args_from(r.values, unmark(defs, cfg), fsys, obj, i + 1)
            ELSE load_args_from(vals, defs, fsys, obj, i + 1)

load_args(vals, defs, fsys, args) == load_args_from(vals, defs, fsys, args, 1)

(***************************************************************************)
(* The command line                                                        *)
(***************************************************************************)
Digit(c) == (CHOOSE i \in 1..10 : SubSeq("0123456789", i, i) = c) - 1

\* int(s) of a string of decimal digits (argparse's type=int).
RECURSIVE int(_)
int(s) ==
    IF Len(s) = 0 THEN 0
    ELSE 10 * int(SubSeq(s, 1, Len(s) - 1)) + Digit(SubSeq(s, Len(s), Len(s)))

\* The value argparse stores for an option: default None when the option is
\* not on the command line, True for a store_true flag, the converted
\* argument otherwise.  cli maps the options given to their argument text.
parsed(cli, cfg) ==
    IF cfg \notin DOMAIN cli THEN None
    ELSE CASE TypeOf(cfg) = "bool" -> PyBool(TRUE)
           [] TypeOf(cfg) = "int" -> PyInt(int(cli[cfg]))
           [] TypeOf(cfg) = "str" -> PyStr(cli[cfg])

\* parse_args: vars(args) as the sequence of its items, in the order the
\* arguments were added to the parser.
parse_args(cmd, cli, testcase, write, verbose) ==
    [i \in 1..Len(_CONFIGS) |-> <<_CONFIGS[i][1], parsed(cli, _CONFIGS[i][1])>>]
    \o (IF cmd \in {"bcrepro", "bcreduce"} THEN << <<"testcase", PyStr(testcase)>> >>
        ELSE <<>>)
    \o << <<"write", PyBool(write)>>, <<"verbose", PyBool(verbose)>> >>

(***************************************************************************)
(* reduce: the argument vector of the reducer                              *)
(***************************************************************************)
\* "%d" % n
RECURSIVE decimal(_)
decimal(n) ==
    IF n < 0 THEN "-" \o decimal(-n)
    ELSE IF n < 10 THEN SubSeq("0123456789", n + 1, n + 1)
    ELSE decimal(n \div 10) \o SubSeq("0123456789", (n % 10) + 1, (n % 10) + 1)

\* if self.<cfg>: cmd.append(tok)
flag_if_set(vals, cfg, tok) == IF vals[cfg] # None THEN <<tok>> ELSE <<>>

flag_if(vals, cfg, tok) == IF Truthy(vals[cfg]) THEN <<tok>> ELSE <<>>

\* if self.<cfg> is not None: cmd.extend([tok, self.<cfg>])
str_if_set(vals, cfg, tok) == IF vals[cfg] # None THEN <<tok, vals[cfg][2]>> ELSE <<>>

\* if self.<cfg>: cmd.extend((tok, self.<cfg>))
str_if(vals, cfg, tok) == IF Truthy(vals[cfg]) THEN <<tok, vals[cfg][2]>> ELSE <<>>

\* if self.<cfg>: cmd.extend((tok, "%d" % self.<cfg>))
int_if(vals, cfg, tok) ==
    IF Truthy(vals[cfg]) THEN <<tok, decimal(vals[cfg][2])>> ELSE <<>>

\* The command reduce builds; the reads of reducer, prefs and buildpath and
\* the join with build raise TypeError when the option is None.
reduce_cmd(vals, testcase, verbose) ==
    LET reducer == getattr(vals, "reducer")
        prefs == getattr(vals, "prefs")
        buildpath == getattr(vals, "buildpath")
    IN IF reducer.raised # "none" THEN [raised |-> reducer.raised, cmd |-> <<>>]
       ELSE IF prefs.raised # "none" THEN [raised |-> prefs.raised, cmd |-> <<>>]
       ELSE IF buildpath.raised # "none" THEN [raised |-> buildpath.raised, cmd |-> <<>>]
       ELSE IF vals["build"][1] # "str" THEN [raised |-> "TypeError", cmd |-> <<>>]
       ELSE [raised |-> "none",
             cmd |-> <<"lithium">>
                     \o flag_if(vals, "char", "--char")
                     \o flag_if(vals, "js", "--js")
                     \o str_if_set(vals, "strategy", "--strategy")
                     \o flag_if(vals, "symbol", "--symbol")
                     \o str_if_set(vals, "reduce_file", "--testcase")
                     \o <<reducer.val[2]>>
                     \o <<"-p", prefs.val[2],
                          join2(join2(buildpath.val[2], vals["build"][2]), "firefox")>>
                     \o flag_if(vals, "xvfb", "--" \o "xvfb")
                     \o flag_if(vals, "gdb", "--" \o "gdb")
                     \o flag_if(vals, "valgrind", "--" \o "valgrind")
                     \o flag_if(vals, "any_crash", "--any-crash")
                     \o int_if(vals, "min_crashes", "--min-crashes")
                     \o flag_if(vals, "no_harness", "--no-harness")
                     \o int_if(vals, "repeat", "--repeat")
                     \o str_if(vals, "sig", "--sig")
                     \o int_if(vals, "skip", "--skip")
                     \o (IF verbose THEN <<"-v">> ELSE <<>>)
                     \o <<testcase>>]

\* reduce(testcase, verbose): the command is built and handed to
\* subprocess.check_call, which raises on a non-zero exit status rc.
reduce(vals, testcase, verbose, rc) ==
    LET c == reduce_cmd(vals, testcase, verbose)
    IN IF c.raised # "none" THEN [raised |-> c.raised, cmd |-> <<>>, rc |-> -1]
       ELSE [raised |-> IF rc = 0 THEN "none" ELSE "CalledProcessError",
             cmd |-> c.cmd, rc |-> rc]

(***************************************************************************)
(* The inputs the model draws from                                         *)
(***************************************************************************)
MaxDocLen == 2      \* members of a configuration document
MaxArgs == 2        \* options given on one command line

\* The build directories: /builds holds m-c-64, ~/builds does not.
Disk ==
    ("/builds" :> ("a-build" :> "dir" @@ "m-c-64" :> "dir"))
    @@ ("/home/u/builds" :> ("a-build" :> "dir" @@ "z-build" :> "dir"))

\* Members a document may hold; "bogus" is not a registered option.
DocPairs ==
    { <<"buildpath", PyStr("/builds")>>, <<"buildpath", PyStr("~/builds")>>,
      <<"build", PyStr("m-c-64")>>,
      <<"xvfb", PyBool(TRUE)>>, <<"xvfb", PyBool(FALSE)>>,
      <<"bogus", PyInt(1)>> }

\* A document that sets the other four options read through expanding getters.
PathsDoc ==
    << <<"extension_path", PyStr("/ext")>>, <<"logfn", PyStr("log.txt")>>,
       <<"prefs", PyStr("~/prefs.js")>>, <<"reducer", PyStr("~/interesting.py")>> >>

\* json.load keeps one member per key: the documents have distinct keys.
DistinctKeys(obj) == \A i, j \in 1..Len(obj) : obj[i][1] = obj[j][1] => i = j

Docs ==
    {PathsDoc} \cup
    UNION {{obj \in [1..n -> DocPairs] : DistinctKeys(obj)} : n \in 0..MaxDocLen}

\* The options a command line may give, with their argument text.
CliArgs ==
    { <<"memory", "2048">>, <<"memory", "0">>, <<"xvfb", "">>, <<"build", "m-c-64">>,
      <<"buildpath", "~/builds">>, <<"reduce_file", "~/t.html">> }

\* A command line: the options given -> their argument text.
Clis ==
    UNION {{cli \in [D -> {a[2] : a \in CliArgs}] : \A cfg \in D : <<cfg, cli[cfg]>> \in CliArgs} :
              D \in {X \in SUBSET {a[1] : a \in CliArgs} : Cardinality(X) <= MaxArgs}}

Cmds == {"bcrepro", "bcreduce", "bclistbuilds", "bugconf"}

\* What parse_args returns for the command lines above.
Namespaces == {parse_args(cmd, cli, "t.html", FALSE, FALSE) : cmd \in Cmds, cli \in Clis}

(***************************************************************************)
(* Files, the run of main and the launcher                                 *)
(***************************************************************************)
\* What open() finds at a path: nothing, a JSON document, or a file that
\* open(path, "w") has emptied and nothing was written to.
Absent == <<"absent">>

Json(doc) == <<"json", doc>>

Truncated == <<"empty">>

\* No defaults file and no project file.
NoFiles == [rc |-> Absent, config |-> Absent, bugconf |-> Absent]

\* main is not running.  pc is main's position; cmd, cli, nverbose, write the
\* command line; args what parse_args returned; level the logger's level;
\* phases the phases entered, in order; loaded the defaults files load was
\* called on; warnings what log.warning was given; dispatched the operations
\* main called for the command; invoked the number of times the reducer was
\* started and rc its exit status, -1 if it was not; out what the operation
\* produced; before the project file as the run found it; status the exit
\* status of the process, -1 while it runs.
NoRun == [pc |-> "none", cmd |-> "", cli |-> <<>>, nverbose |-> 0, write |-> FALSE,
          args |-> <<>>, level |-> "INFO", phases |-> <<>>, loaded |-> <<>>,
          warnings |-> <<>>, dispatched |-> <<>>, invoked |-> 0, rc |-> -1, out |-> <<>>,
          before |-> Absent, status |-> -1]

\* No launcher was made.  pc is repro's position; calls the calls made on
\* the launcher, in order; pending the exception that is propagating, "none"
\* if none; logs the log files in the working directory, name -> size;
\* stderr, crashdata and best_size the variables of the scan; shown what
\* repro last reported: how wait ended, then what it wrote to stdout.
NoLauncher == [pc |-> "none", calls |-> <<>>, pending |-> "none", logs |-> <<>>,
               stderr |-> None, crashdata |-> None, best_size |-> 0,
               shown |-> "nothing"]

(***************************************************************************)
(* The store under any sequence of loads, command-line merges and dumps    *)
(***************************************************************************)
\* last: op names the call; raised its exception; asDefaults the _defaults
\* argument of load; unknown whether the loaded document holds an unregistered
\* key; keys the registered options the call was given a value for (load_args:
\* a non-null value); shadowed the options the call assigned whose value had
\* come from the defaults file; out the document dump wrote or the argument
\* vector reduce built; arg the value given to the build setter, or reduce's
\* <<testcase, verbose>>; rc the exit status of reduce's subprocess, -1 when
\* none was started.
Idle == [op |-> "idle", raised |-> "none", asDefaults |-> FALSE,
         unknown |-> FALSE, keys |-> {}, shadowed |-> {}, out |-> <<>>,
         arg |-> None, rc |-> -1]

NoFresh == [made |-> FALSE, values |-> __init__, defaults |-> {}]

Init ==
    /\ values = __init__
    /\ _defaults = {}
    /\ fresh = NoFresh
    /\ fs = Disk
    /\ last = Idle
    /\ given = [cfg \in ConfigNames |-> None]
    /\ src = [cfg \in ConfigNames |-> "unset"]
    /\ files = NoFiles
    /\ run = NoRun
    /\ ffp = NoLauncher

\* The options among the first n members of obj that a loader assigned.
Assigned(obj, n) ==
    {obj[i][1] : i \in {j \in 1..n : obj[j][1] \in ConfigNames /\ obj[j][2] # None}}

ValueIn(obj, cfg) == (CHOOSE p \in Elems(obj) : p[1] = cfg)[2]

\* load(cfgfp, _defaults) of a document.
Load(obj, asDefaults) ==
    /\ last.op = "idle"
    /\ \E r \in {load(values, _defaults, fs, obj, asDefaults)} :
         \E done \in {{obj[i][1] : i \in 1..r.n}} :
            /\ values' = r.values
            /\ _defaults' = r.defaults
            /\ last' = [Idle EXCEPT !.op = "load", !.raised = r.raised,
                                    !.asDefaults = asDefaults,
                                    !.unknown = (\E i \in 1..Len(obj) :
                                                    obj[i][1] \notin ConfigNames),
                                    !.keys = {obj[i][1] : i \in 1..Len(obj)}
                                             \cap ConfigNames,
                                    !.shadowed = {cfg \in done : src[cfg] = "defaults"}]
            /\ given' = [cfg \in done |-> ValueIn(obj, cfg)] @@ given
            /\ src' = [cfg \in done |-> IF asDefaults THEN "defaults" ELSE "override"]
                      @@ src
    /\ UNCHANGED <<fresh, fs, files, run, ffp>>

\* load_args(args) of a parsed command line.
LoadArgs(args) ==
    /\ last.op = "idle"
    /\ \E r \in {load_args(values, _defaults, fs, args)} :
         \E done \in {Assigned(args, r.n)} :
            /\ values' = r.values
            /\ _defaults' = r.defaults
            /\ last' = [Idle EXCEPT !.op = "load_args", !.raised = r.raised,
                                    !.keys = Assigned(args, Len(args)),
                                    !.shadowed = {cfg \in done : src[cfg] = "defaults"}]
            /\ given' = [cfg \in done |-> ValueIn(args, cfg)] @@ given
            /\ src' = [cfg \in done |-> "override"] @@ src
    /\ UNCHANGED <<fresh, fs, files, run, ffp>>

\* dump(cfgfp): last.out is what was written to the file object.
Dump ==
    /\ last.op = "idle"
    /\ \E r \in {dump(values, _defaults)} :
         last' = [Idle EXCEPT !.op = "dump", !.raised = r.raised, !.out = r.doc]
    /\ UNCHANGED <<values, _defaults, fresh, fs, given, src, files, run, ffp>>

\* A document that dump wrote is loaded into a new object, made with no
\* defaults file present.
Reload ==
    /\ last.op = "dump"
    /\ last.raised = "none"
    /\ \E r \in {load(__init__, {}, fs, last.out, FALSE)} :
         /\ fresh' = [made |-> TRUE, values |-> r.values, defaults |-> r.defaults]
         /\ last' = [last EXCEPT !.op = "reload", !.raised = r.raised]
    /\ UNCHANGED <<values, _defaults, fs, given, src, files, run, ffp>>

\* The call has returned: the caller goes on to its next call.
Return ==
    /\ last.op # "idle"
    /\ ffp.pc \in {"none", "done", "raised"}
    /\ last' = Idle
    /\ fresh' = NoFresh
    /\ ffp' = NoLauncher
    /\ UNCHANGED <<values, _defaults, fs, given, src, files, run>>

Next ==
    \/ \E obj \in Docs, asDefaults \in BOOLEAN : Load(obj, asDefaults)
    \/ \E args \in Namespaces : LoadArgs(args)
    \/ Dump
    \/ Reload
    \/ Return

Spec == Init /\ [][Next]_vars

(***************************************************************************)
(* The build property under direct assignment, with builds coming and      *)
(* going on the disk                                                       *)
(***************************************************************************)
MaxSet == 2         \* reducer options assigned in one store

BuildNames == {"m-c-64", "z-build"}

BuildValues == {PyStr("m-c-64"), PyStr("z-build"), PyStr("nope")}

BuildpathValues == {PyStr("/builds"), PyStr("~/builds"), PyStr("/nodir")}

\* The options reduce turns into flags, and the values the model assigns them.
ReduceBools == {"char", "js", "symbol", "xvfb", "gdb", "valgrind", "any_crash", "no_harness"}

ReduceValues ==
    { <<"strategy", PyStr("")>>, <<"strategy", PyStr("check-only")>>,
      <<"reduce_file", PyStr("")>>, <<"reduce_file", PyStr("~/t.html")>>,
      <<"min_crashes", PyInt(0)>>, <<"min_crashes", PyInt(2)>>,
      <<"repeat", PyInt(0)>>, <<"repeat", PyInt(10)>>,
      <<"sig", PyStr("")>>, <<"sig", PyStr("sig.json")>>,
      <<"skip", PyInt(0)>>, <<"skip", PyInt(3)>> }

ReduceOpts == ReduceBools \cup {p[1] : p \in ReduceValues}

ReducePairs ==
    {<<cfg, PyBool(b)>> : cfg \in ReduceBools, b \in BOOLEAN} \cup ReduceValues

\* A project file that sets what reduce reads unconditionally.
ReduceDoc ==
    << <<"buildpath", PyStr("/builds")>>, <<"build", PyStr("m-c-64")>>,
       <<"prefs", PyStr("~/prefs.js")>>, <<"reducer", PyStr("~/interesting.py")>> >>

Testcases == {"t.html"}

ExitStatus == {0, 1}

\* bcobj.<cfg> = value for an option whose setter cannot refuse the value.
Assign(cfg, value) ==
    /\ last.op = "idle"
    /\ \E r \in {setattr(values, fs, cfg, value)} :
         /\ r.raised = "none"
         /\ values' = r.values
    /\ Cardinality({c \in ReduceOpts : values'[c] # None}) <= MaxSet
    /\ UNCHANGED <<_defaults, fresh, fs, last, given, src, files, run, ffp>>

\* bcobj.build = value
SetBuild(value) ==
    /\ last.op = "idle"
    /\ \E r \in {setattr(values, fs, "build", value)} :
         /\ values' = r.values
         /\ last' = [Idle EXCEPT !.op = "set_build", !.raised = r.raised, !.arg = value]
    /\ UNCHANGED <<_defaults, fresh, fs, given, src, files, run, ffp>>

\* A build directory appears under a build path.
Mkdir(d, n) ==
    /\ last.op = "idle"
    /\ d \in DOMAIN fs
    /\ n \notin DOMAIN fs[d]
    /\ fs' = [fs EXCEPT ![d] = (n :> "dir") @@ fs[d]]
    /\ UNCHANGED <<values, _defaults, fresh, last, given, src, files, run, ffp>>

\* A build directory is removed from a build path.
Rmdir(d, n) ==
    /\ last.op = "idle"
    /\ d \in DOMAIN fs
    /\ n \in DOMAIN fs[d]
    /\ fs' = [fs EXCEPT ![d] = [x \in DOMAIN fs[d] \ {n} |-> fs[d][x]]]
    /\ UNCHANGED <<values, _defaults, fresh, last, given, src, files, run, ffp>>

NextAssign ==
    \/ \E value \in BuildpathValues : Assign("buildpath", value)
    \/ \E value \in BuildValues : SetBuild(value)
    \/ \E d \in DOMAIN Disk, n \in BuildNames : Mkdir(d, n)
    \/ \E d \in DOMAIN Disk, n \in BuildNames : Rmdir(d, n)
    \/ Return

SpecAssign == Init /\ [][NextAssign]_vars

(***************************************************************************)
(* reduce over the stores a project file and assignments produce           *)
(***************************************************************************)
\* reduce(testcase, verbose), the reducer exiting with status rc.
Reduce(testcase, verbose, rc) ==
    /\ last.op = "idle"
    /\ \E r \in {reduce(values, testcase, verbose, rc)} :
         last' = [Idle EXCEPT !.op = "reduce", !.raised = r.raised, !.out = r.cmd,
                              !.arg = <<testcase, verbose>>, !.rc = r.rc]
    /\ UNCHANGED <<values, _defaults, fresh, fs, given, src, files, run, ffp>>

NextReduce ==
    \/ Load(ReduceDoc, FALSE)
    \/ \E p \in ReducePairs : Assign(p[1], p[2])
    \/ \E testcase \in Testcases, verbose \in BOOLEAN, rc \in ExitStatus :
          Reduce(testcase, verbose, rc)
    \/ Return

SpecReduce == Init /\ [][NextReduce]_vars

(***************************************************************************)
(* repro: the launcher and the choice of the crash log                     *)
(***************************************************************************)
MaxLogs == 2        \* files in the working directory after save_logs
MaxSize == 2        \* size of a log file, in bytes

startswith(s, prefix) ==
    Len(prefix) <= Len(s) /\ SubSeq(s, 1, Len(prefix)) = prefix

endswith(s, suffix) ==
    Len(suffix) <= Len(s) /\ SubSeq(s, Len(s) - Len(suffix) + 1, Len(s)) = suffix

\* sub in s
contains(s, sub) ==
    \E i \in 1..(Len(s) - Len(sub) + 1) : SubSeq(s, i, i + Len(sub) - 1) = sub

\* The arguments of ffp.launch; the reads of prefs, extension_path and
\* buildpath and the join with build raise TypeError when the option is None.
launch_args(vals, testcase) ==
    LET prefs == getattr(vals, "prefs")
        ext == IF Truthy(vals["extension"]) THEN getattr(vals, "extension_path")
               ELSE Ok(None)
        buildpath == getattr(vals, "buildpath")
    IN IF prefs.raised # "none" THEN [raised |-> prefs.raised, binary |-> "", kwds |-> <<>>]
       ELSE IF ext.raised # "none" THEN [raised |-> ext.raised, binary |-> "", kwds |-> <<>>]
       ELSE IF buildpath.raised # "none"
       THEN [raised |-> buildpath.raised, binary |-> "", kwds |-> <<>>]
       ELSE IF vals["build"][1] # "str" THEN [raised |-> "TypeError", binary |-> "", kwds |-> <<>>]
       ELSE [raised |-> "none",
             binary |-> join2(join2(buildpath.val[2], vals["build"][2]), "firefox"),
             kwds |-> << <<"prefs_js", prefs.val>>, <<"location", PyStr(testcase)>> >>
                      \o (IF Truthy(vals["safemode"])
                          THEN << <<"safe_mode", PyBool(TRUE)>> >> ELSE <<>>)
                      \o (IF Truthy(vals["extension"])
                          THEN << <<"extension", ext.val>> >> ELSE <<>>)
                      \o (IF Truthy(vals["memory"])
                          THEN << <<"memory_limit",
                                    PyInt(vals["memory"][2] * 1024 * 1024)>> >>
                          ELSE <<>>)]

\* Where control goes from the inner try block: its finally clause runs
\* clean_up whether or not close and save_logs raised.
inner_finally_skipped(closed) == IF closed THEN "clean_up" ELSE "raised"

inner_finally(closed) == "clean_up"

\* The loop of repro over os.listdir("."), from entry i on; order is the
\* listing, size the size of each file, st the loop's variables.
RECURSIVE scan_from(_, _, _, _)
scan_from(order, size, i, st) ==
    IF i > Len(order) THEN st
    ELSE LET log_fn == order[i]
             nxt == IF startswith(log_fn, "log_") /\ endswith(log_fn, ".txt")
                    THEN IF contains(log_fn, "stderr")
                         THEN [st EXCEPT !.stderr = PyStr(log_fn)]
                         ELSE IF contains(log_fn, "asan")
                         THEN IF size[log_fn] > st.best_size
                              THEN [st EXCEPT !.crashdata = PyStr(log_fn),
                                              !.best_size = size[log_fn]]
                              ELSE st
                         ELSE IF ~contains(log_fn, "stdout") /\ st.crashdata = None
                         THEN [st EXCEPT !.crashdata = PyStr(log_fn)]
                         ELSE st
                    ELSE st
         IN scan_from(order, size, i + 1, nxt)

scan(order, size) ==
    scan_from(order, size, 1, [stderr |-> None, crashdata |-> None, best_size |-> 0])

\* What repro writes to stdout once the logs are scanned.
report(stderr, crashdata) ==
    IF crashdata = None /\ stderr # None THEN "stderr"
    ELSE IF crashdata = None THEN "warning: No stderr!"
    ELSE IF contains(crashdata[2], "minidump") THEN "backtrace"
    ELSE "crashdata"

\* The files the working directory can hold once the logs are saved; only
\* the size of an asan log is read.
LogNames ==
    {"log_stderr.txt", "log_stdout.txt", "log_ffp_asan_1.txt", "log_ffp_asan_2.txt",
     "log_minidump_01.txt", "t.html"}

LogDirs ==
    UNION {{d \in [S -> 0..MaxSize] : \A n \in S : contains(n, "asan") \/ d[n] = 1} :
              S \in {X \in SUBSET LogNames : Cardinality(X) <= MaxLogs}}

\* The orders os.listdir can return the names S in.
Orders(S) ==
    {o \in [1..Cardinality(S) -> S] : \A i, j \in 1..Cardinality(S) : i # j => o[i] # o[j]}

\* A project file that sets what repro reads unconditionally.
ReproDoc ==
    << <<"buildpath", PyStr("/builds")>>, <<"build", PyStr("m-c-64")>>,
       <<"prefs", PyStr("~/prefs.js")>> >>

ReproPairs ==
    { <<"extension", PyStr("ext.xpi")>>, <<"safemode", PyBool(TRUE)>>,
      <<"memory", PyInt(5)>>, <<"timeout", PyInt(60)>> }

\* ffp = ffpuppet.FFPuppet(...): the launcher is made.
CreateLauncher(testcase) ==
    /\ last.op = "idle"
    /\ ffp' = [NoLauncher EXCEPT !.pc = "launch", !.calls = <<"FFPuppet">>]
    /\ last' = [Idle EXCEPT !.op = "repro", !.arg = PyStr(testcase)]

\* repro(testcase) is called.
Repro_Create(testcase) ==
    /\ CreateLauncher(testcase)
    /\ UNCHANGED <<values, _defaults, fresh, fs, given, src, files, run>>

\* The outer try block up to ffp.launch, which the browser may refuse.
Repro_Launch ==
    /\ ffp.pc = "launch"
    /\ \E r \in {launch_args(values, last.arg[2])} :
         IF r.raised # "none"
         THEN ffp' = [ffp EXCEPT !.pc = "close", !.pending = r.raised,
                                 !.calls = Append(@, "add_abort_token")]
         ELSE \E launched \in BOOLEAN :
                ffp' = [ffp EXCEPT !.pc = IF launched THEN "wait" ELSE "close",
                                   !.pending = IF launched THEN "none" ELSE "LaunchError",
                                   !.calls = @ \o <<"add_abort_token", "launch">>]
    /\ UNCHANGED <<values, _defaults, fresh, fs, last, given, src, files, run>>

\* ffp.wait(timeout=self.timeout) returns: the browser exited, or the
\* timeout was hit.
Repro_Wait ==
    /\ ffp.pc = "wait"
    /\ \E outcome \in {"exit", "timeout"} :
         ffp' = [ffp EXCEPT !.pc = "close", !.calls = @ \o <<"get_pid", "wait">>,
                            !.shown = outcome]
    /\ UNCHANGED <<values, _defaults, fresh, fs, last, given, src, files, run>>

\* The outer finally clause: close, removal of the old logs, save_logs; an
\* exception raised here replaces the one that was propagating.
Repro_Close ==
    /\ ffp.pc = "close"
    /\ \E closed \in BOOLEAN :
         IF ~closed
         THEN ffp' = [ffp EXCEPT !.pc = inner_finally(FALSE), !.pending = "CloseError",
                                 !.calls = Append(@, "close")]
         ELSE \/ ffp' = [ffp EXCEPT !.pc = inner_finally(FALSE), !.pending = "SaveError",
                                    !.calls = @ \o <<"close", "save_logs">>]
              \/ \E d \in LogDirs :
                    ffp' = [ffp EXCEPT !.pc = inner_finally(TRUE), !.logs = d,
                                       !.calls = @ \o <<"close", "save_logs">>]
    /\ UNCHANGED <<values, _defaults, fresh, fs, last, given, src, files, run>>

\* The inner finally clause: clean_up; then the pending exception, if any,
\* leaves repro.
Repro_CleanUp ==
    /\ ffp.pc = "clean_up"
    /\ ffp' = [ffp EXCEPT !.pc = IF ffp.pending = "none" THEN "scan" ELSE "raised",
                          !.calls = Append(@, "clean_up")]
    /\ last' = [last EXCEPT !.raised = ffp.pending]
    /\ UNCHANGED <<values, _defaults, fresh, fs, given, src, files, run>>

\* The scan of os.listdir("."), in whatever order it lists the directory.
Repro_Scan ==
    /\ ffp.pc = "scan"
    /\ \E order \in Orders(DOMAIN ffp.logs) :
         \E st \in {scan(order, ffp.logs)} :
            ffp' = [ffp EXCEPT !.pc = "report", !.stderr = st.stderr,
                               !.crashdata = st.crashdata, !.best_size = st.best_size]
    /\ UNCHANGED <<values, _defaults, fresh, fs, last, given, src, files, run>>

\* The chosen log is written out, then the build's firefox.fuzzmanagerconf
\* is read, which raises KeyError when it has no [Main] section.
Repro_Report ==
    /\ ffp.pc = "report"
    /\ \E conf \in BOOLEAN :
         /\ ffp' = [ffp EXCEPT !.pc = IF conf THEN "done" ELSE "raised",
                               !.pending = IF conf THEN "none" ELSE "KeyError",
                               !.shown = report(ffp.stderr, ffp.crashdata)]
         /\ last' = [last EXCEPT !.raised = IF conf THEN "none" ELSE "KeyError"]
    /\ UNCHANGED <<values, _defaults, fresh, fs, given, src, files, run>>

NextRepro ==
    \/ Load(ReproDoc, FALSE)
    \/ \E p \in ReproPairs : Assign(p[1], p[2])
    \/ \E testcase \in Testcases : Repro_Create(testcase)
    \/ Repro_Launch
    \/ Repro_Wait
    \/ Repro_Close
    \/ Repro_CleanUp
    \/ Repro_Scan
    \/ Repro_Report
    \/ Return

\* A call of wait returns: the browser exits or the timeout passes.
SpecRepro == Init /\ [][NextRepro]_vars /\ WF_vars(NextRepro)

(***************************************************************************)
(* list_builds over build paths that hold directories and plain files      *)
(***************************************************************************)
FileNames == {"README"}

ListPaths == BuildpathValues \cup {PyStr("/builds/README")}

\* A plain file appears under a build path.
Touch(d, n) ==
    /\ last.op = "idle"
    /\ d \in DOMAIN fs
    /\ n \notin DOMAIN fs[d]
    /\ fs' = [fs EXCEPT ![d] = (n :> "file") @@ fs[d]]
    /\ UNCHANGED <<values, _defaults, fresh, last, given, src, files, run, ffp>>

\* for build in bcobj.list_builds(): last.out is what the generator yields.
ListBuilds ==
    /\ last.op = "idle"
    /\ \E r \in {list_builds(values, fs)} :
         last' = [Idle EXCEPT !.op = "list_builds", !.raised = r.raised,
                              !.out = IF r.raised = "none" THEN r.val ELSE <<>>]
    /\ UNCHANGED <<values, _defaults, fresh, fs, given, src, files, run, ffp>>

NextList ==
    \/ \E value \in ListPaths : Assign("buildpath", value)
    \/ \E d \in DOMAIN Disk, n \in BuildNames : Mkdir(d, n)
    \/ \E d \in DOMAIN Disk, n \in BuildNames : Rmdir(d, n)
    \/ \E d \in DOMAIN Disk, n \in FileNames : Touch(d, n)
    \/ ListBuilds
    \/ Return

SpecList == Init /\ [][NextList]_vars

(***************************************************************************)
(* main: defaults search, project file, command line, dispatch, persist    *)
(***************************************************************************)
MaxVerbose == 2     \* repetitions of --verbose on a command line

\* action="store_true": the flag sets True however often it is repeated.
store_true(n) == n > 0

\* The exit status of the interpreter: 1 when an exception leaves main.
exit_status(raised) == IF raised = "none" THEN 0 ELSE 1

\* with open(path) as cfgfp: self.load(cfgfp, _defaults) on a path holding
\* content: open raises FileNotFoundError when nothing is there, json.load
\* raises on a file that is not a JSON document.
load_file(vals, defs, fsys, content, asDefaults) ==
    IF content = Absent
    THEN [raised |-> "FileNotFoundError", values |-> vals, defaults |-> defs, n |-> 0]
    ELSE IF content[1] # "json"
    THEN [raised |-> "JSONDecodeError", values |-> vals, defaults |-> defs, n |-> 0]
    ELSE load(vals, defs, fsys, content[2], asDefaults)

\* The defaults files, in the order __init__ tries them.
paths == <<"rc", "config">>

\* The loop of __init__ over paths, from path i on: a FileNotFoundError,
\* whether open raised it or the load did, moves on to the next path; a
\* load that returns ends the loop.  loaded lists the paths load was called on.
RECURSIVE defaults_from(_, _, _, _, _, _)
defaults_from(vals, defs, fsys, fl, i, loaded) ==
    IF i > Len(paths)
    THEN [raised |-> "none", values |-> vals, defaults |-> defs, loaded |-> loaded]
    ELSE LET r == load_file(vals, defs, fsys, fl[paths[i]], TRUE)
             called == IF fl[paths[i]] = Absent THEN loaded ELSE Append(loaded, paths[i])
         IN IF r.raised = "FileNotFoundError"
            THEN defaults_from(r.values, r.defaults, fsys, fl, i + 1, called)
            ELSE [raised |-> r.raised, values |-> r.values, defaults |-> r.defaults,
                  loaded |-> called]

\* cls(): the fields are initialised, then the defaults are searched.
BugConf(fsys, fl) == defaults_from(__init__, {}, fsys, fl, 1, <<>>)

\* args.<name>
attr(args, name) == (CHOOSE p \in Elems(args) : p[1] = name)[2]

\* The defaults files and project files a run may find.
RcFiles ==
    {Absent,
     Json(<< <<"buildpath", PyStr("/builds")>>, <<"xvfb", PyBool(TRUE)>> >>),
     Json(<< <<"buildpath", PyStr("/nodir")>>, <<"build", PyStr("m-c-64")>> >>)}

ConfigFiles == {Absent, Json(<< <<"gdb", PyBool(TRUE)>> >>)}

ProjectFiles ==
    {Absent,
     Json(<< <<"xvfb", PyBool(FALSE)>> >>),
     Json(ReduceDoc \o << <<"extension_path", PyStr("/ext")>>, <<"logfn", PyStr("log.txt")>> >>)}

MainClis == {<<>>, "memory" :> "5"}

\* The exit statuses of the reducer.
ReducerStatus == {0, 1, 2}

\* A process is started with a command line, in a home and a working
\* directory that hold some of the configuration files.
InitMain ==
    /\ values = __init__
    /\ _defaults = {}
    /\ fresh = NoFresh
    /\ fs = Disk
    /\ last = Idle
    /\ given = [cfg \in ConfigNames |-> None]
    /\ src = [cfg \in ConfigNames |-> "unset"]
    /\ ffp = NoLauncher
    /\ files \in [rc : RcFiles, config : ConfigFiles, bugconf : ProjectFiles]
    /\ \E cmd \in Cmds, cli \in MainClis, n \in 0..MaxVerbose, write \in BOOLEAN :
          run = [NoRun EXCEPT !.pc = "start", !.cmd = cmd, !.cli = cli, !.nverbose = n,
                              !.write = write, !.before = files.bugconf]

\* The operation main calls for a command.
verb_by_flag(cmd, write) == IF write THEN "write-only" ELSE "no-op-warning"

verb(cmd, write) ==
    IF cmd = "bcrepro" THEN "repro"
    ELSE IF cmd = "bcreduce" THEN "reduce"
    ELSE IF cmd = "bclistbuilds" THEN "list-builds"
    ELSE IF ~write THEN "no-op-warning"
    ELSE "write-only"

\* Whether a missing project file is worth a warning.
warns_missing_always(cmd) == TRUE

warns_missing(cmd) == cmd # "bclistbuilds"

\* main is left: by an exception, or by reaching its end.
Exit(r, raised) == [r EXCEPT !.pc = "exit", !.status = exit_status(raised)]

Enter(r, phase) == [r EXCEPT !.phases = Append(@, phase)]

\* args = cls.parse_args(cmd); the log level follows args.verbose.
Main_ParseArgs ==
    /\ run.pc = "start"
    /\ \E args \in {parse_args(run.cmd, run.cli, "t.html", run.write,
                               store_true(run.nverbose))} :
         run' = [run EXCEPT !.pc = "construct", !.args = args,
                            !.level = IF Truthy(attr(args, "verbose")) THEN "DEBUG"
                                      ELSE "INFO"]
    /\ UNCHANGED <<values, _defaults, fresh, fs, last, given, src, files, ffp>>

\* bcobj = cls()
Main_Construct ==
    /\ run.pc = "construct"
    /\ \E r \in {BugConf(fs, files)} :
         /\ values' = r.values
         /\ _defaults' = r.defaults
         /\ run' = IF r.raised = "none"
                   THEN [Enter(run, "loading-defaults") EXCEPT !.pc = "project",
                                                               !.loaded = r.loaded]
                   ELSE Exit([Enter(run, "loading-defaults") EXCEPT !.loaded = r.loaded],
                             r.raised)
    /\ UNCHANGED <<fresh, fs, last, given, src, files, ffp>>

\* The project file is loaded; a FileNotFoundError is a warning, or nothing
\* for bclistbuilds.
Main_LoadProject ==
    /\ run.pc = "project"
    /\ \E r \in {load_file(values, _defaults, fs, files.bugconf, FALSE)} :
         /\ values' = r.values
         /\ _defaults' = r.defaults
         /\ run' = IF r.raised = "none"
                   THEN [Enter(run, "loading-project-config") EXCEPT !.pc = "merge"]
                   ELSE IF r.raised = "FileNotFoundError"
                   THEN [Enter(run, "loading-project-config") EXCEPT
                            !.pc = "merge",
                            !.warnings = IF warns_missing(run.cmd)
                                         THEN Append(@, "No bugconf file found in current directory")
                                         ELSE @]
                   ELSE Exit(Enter(run, "loading-project-config"), r.raised)
    /\ UNCHANGED <<fresh, fs, last, given, src, files, ffp>>

\* bcobj.load_args(args)
Main_LoadArgs ==
    /\ run.pc = "merge"
    /\ \E r \in {load_args(values, _defaults, fs, run.args)} :
         /\ values' = r.values
         /\ _defaults' = r.defaults
         /\ run' = IF r.raised = "none"
                   THEN [Enter(run, "merging-cli-overrides") EXCEPT !.pc = "dispatch"]
                   ELSE Exit(Enter(run, "merging-cli-overrides"), r.raised)
    /\ UNCHANGED <<fresh, fs, last, given, src, files, ffp>>

\* The operation is chosen by cmd.  repro runs step by step; the others
\* are done in this step: reduce with the reducer exiting with some status,
\* the listing of the builds, the warning, or nothing at all with --write.
Main_Dispatch ==
    /\ run.pc = "dispatch"
    /\ \/ /\ verb(run.cmd, Truthy(attr(run.args, "write"))) = "repro"
          /\ CreateLauncher(attr(run.args, "testcase")[2])
          /\ run' = [Enter(run, "dispatch") EXCEPT !.pc = "repro",
                                                   !.dispatched = Append(@, "repro")]
          /\ UNCHANGED <<values, _defaults, fresh, fs, given, src, files>>
       \/ /\ verb(run.cmd, Truthy(attr(run.args, "write"))) = "reduce"
          /\ \E rc \in ReducerStatus :
               \E r \in {reduce(values, attr(run.args, "testcase")[2],
                                Truthy(attr(run.args, "verbose")), rc)} :
                  run' = [(IF r.raised = "none"
                           THEN [Enter(run, "dispatch") EXCEPT !.pc = "persist"]
                           ELSE Exit(Enter(run, "dispatch"), r.raised))
                          EXCEPT !.dispatched = Append(@, "reduce"),
                                 !.invoked = IF r.rc = -1 THEN @ ELSE @ + 1,
                                 !.rc = r.rc,
                                 !.out = r.cmd]
          /\ UNCHANGED <<values, _defaults, fresh, fs, last, given, src, files, ffp>>
       \/ /\ verb(run.cmd, Truthy(attr(run.args, "write"))) = "list-builds"
          /\ \E r \in {list_builds(values, fs)} :
               run' = [(IF r.raised = "none"
                        THEN [Enter(run, "dispatch") EXCEPT !.pc = "persist", !.out = r.val]
                        ELSE Exit(Enter(run, "dispatch"), r.raised))
                       EXCEPT !.dispatched = Append(@, "list-builds")]
          /\ UNCHANGED <<values, _defaults, fresh, fs, last, given, src, files, ffp>>
       \/ /\ verb(run.cmd, Truthy(attr(run.args, "write"))) \in {"write-only", "no-op-warning"}
          /\ \E v \in {verb(run.cmd, Truthy(attr(run.args, "write")))} :
               run' = [Enter(run, "dispatch") EXCEPT
                          !.pc = "persist",
                          !.dispatched = Append(@, v),
                          !.warnings = IF v = "no-op-warning"
                                       THEN Append(@, "nothing to do!") ELSE @]
          /\ UNCHANGED <<values, _defaults, fresh, fs, last, given, src, files, ffp>>

\* repro returns to main, or its exception leaves main.
Main_ReproReturn ==
    /\ run.pc = "repro"
    /\ ffp.pc \in {"done", "raised"}
    /\ run' = IF ffp.pc = "done" THEN [run EXCEPT !.pc = "persist"]
              ELSE Exit(run, ffp.pending)
    /\ last' = Idle
    /\ ffp' = NoLauncher
    /\ UNCHANGED <<values, _defaults, fresh, fs, given, src, files>>

\* if args.write: open("bugconf", "w") empties the file, then dump writes
\* the document, or raises before anything is written.  Then main ends.
Main_Persist ==
    /\ run.pc = "persist"
    /\ IF Truthy(attr(run.args, "write"))
       THEN \E d \in {dump(values, _defaults)} :
              /\ files' = [files EXCEPT !.bugconf = IF d.raised = "none" THEN Json(d.doc)
                                                    ELSE Truncated]
              /\ run' = Exit(Enter(run, "optional-persist"), d.raised)
       ELSE /\ run' = Exit(run, "none")
            /\ UNCHANGED files
    /\ UNCHANGED <<values, _defaults, fresh, fs, last, given, src, ffp>>

NextMain ==
    \/ Main_ParseArgs
    \/ Main_Construct
    \/ Main_LoadProject
    \/ Main_LoadArgs
    \/ Main_Dispatch
    \/ Repro_Launch
    \/ Repro_Wait
    \/ Repro_Close
    \/ Repro_CleanUp
    \/ Repro_Scan
    \/ Repro_Report
    \/ Main_ReproReturn
    \/ Main_Persist

SpecMain == InitMain /\ [][NextMain]_vars

(***************************************************************************)
(* Claims about the layered store                                          *)
(***************************************************************************)
\* The options whose value is expanded, when it is stored or when it is read.
PathLike == ExpandOnRead \cup {"reduce_file"}

\* A file's or command line's value as the store gives it back.
Normalized(cfg, v) == IF cfg \in PathLike THEN expanduser(v).val ELSE v

\* C1, as stated: after a project-file load, every option it assigned whose
\* value had come from the defaults file reads back as exactly the project
\* file's value and is not default-origin.
C1_PrecedenceLiteral ==
    (last.op = "load" /\ ~last.asDefaults) =>
        \A cfg \in last.shadowed :
            /\ getattr(values, cfg) = Ok(given[cfg])
            /\ cfg \notin _defaults

\* C1, amended: after a project-file load, every option it assigned whose
\* value had come from the defaults file reads back as the project file's
\* value, with a leading "~" expanded to the home directory for the
\* path-like options, and is not default-origin.
C1_Precedence ==
    (last.op = "load" /\ ~last.asDefaults) =>
        \A cfg \in last.shadowed :
            /\ getattr(values, cfg) = Ok(Normalized(cfg, given[cfg]))
            /\ cfg \notin _defaults

\* A project file has overridden a defaults-file value of a path-like option
\* and one of another option.
C1_Witness ==
    /\ last.op = "load" /\ ~last.asDefaults /\ last.raised = "none"
    /\ \E cfg \in last.shadowed : cfg \in PathLike /\ given[cfg] # Normalized(cfg, given[cfg])
    /\ \E cfg \in last.shadowed : cfg \notin PathLike

\* The options dump is to write: a non-null value that is not default-origin.
Persisted == {cfg \in ConfigNames : values[cfg] # None /\ cfg \notin _defaults}

Keys(doc) == {doc[i][1] : i \in 1..Len(doc)}

Ascending(doc) == \A i, j \in 1..Len(doc) : i < j => StrLess(doc[i][1], doc[j][1])

\* C2: in every state reached by loads and command-line merges, dump writes
\* exactly the options with a non-null value that are not default-origin,
\* each with the option's value, the keys in ascending order.
C2_DumpWritesNonDefaults ==
    last.op = "dump" =>
        /\ last.raised = "none"
        /\ Keys(last.out) = Persisted
        /\ \A i \in 1..Len(last.out) :
              getattr(values, last.out[i][1]) = Ok(last.out[i][2])
        /\ Ascending(last.out)

\* The store of the scenario: buildpath=/builds from the defaults file,
\* build=m-c-64 and xvfb=false from the project file, memory=2048 from the
\* command line, and nothing else set.
ScenarioStore ==
    /\ values = [__init__ EXCEPT !["buildpath"] = PyStr("/builds"),
                                 !["build"] = PyStr("m-c-64"),
                                 !["xvfb"] = PyBool(FALSE),
                                 !["memory"] = PyInt(2048)]
    /\ _defaults = {"buildpath"}
    /\ src = [[cfg \in ConfigNames |-> "unset"]
                 EXCEPT !["buildpath"] = "defaults", !["build"] = "override",
                        !["xvfb"] = "override", !["memory"] = "override"]

\* C3: in the scenario's store, dump writes exactly build="m-c-64",
\* memory=2048 and xvfb=false.
C3_ScenarioDump ==
    (ScenarioStore /\ last.op = "dump") =>
        /\ last.raised = "none"
        /\ last.out = << <<"build", PyStr("m-c-64")>>, <<"memory", PyInt(2048)>>,
                         <<"xvfb", PyBool(FALSE)>> >>

\* C4: a document that dump wrote loads into a new object without an
\* exception, and every option the document was to hold reads the same in
\* the new object as in the dumped one.
C4_RoundTrip ==
    last.op = "reload" =>
        /\ last.raised = "none"
        /\ \A cfg \in Persisted : getattr(fresh.values, cfg) = getattr(values, cfg)

\* C5: a load of a document with an unregistered key raises and leaves every
\* option value and the default-origin set as they were.
C5_UnknownKeyAtomic ==
    [][(last'.op = "load" /\ last'.unknown) =>
          /\ last'.raised # "none"
          /\ values' = values
          /\ _defaults' = _defaults]_vars

\* C7: an option is default-origin exactly when its value was last assigned
\* by a defaults-file load.
C7_DefaultOrigin ==
    \A cfg \in ConfigNames : cfg \in _defaults <=> src[cfg] = "defaults"

\* A call took one option out of the default-origin set and left another in.
C7_Witness ==
    /\ last.shadowed # {}
    /\ \E cfg \in _defaults : values[cfg] # None

\* C8, as stated: when load_args returns, every option with a non-null
\* parsed value reads back as that value and is not default-origin, and every
\* other option keeps its value and its marking.
C8_LoadArgsLiteral ==
    [][(last'.op = "load_args" /\ last'.raised = "none") =>
          \A cfg \in ConfigNames :
              IF cfg \in last'.keys
              THEN /\ getattr(values', cfg) = Ok(given'[cfg])
                   /\ cfg \notin _defaults'
              ELSE /\ values'[cfg] = values[cfg]
                   /\ (cfg \in _defaults' <=> cfg \in _defaults)]_vars

\* C8, amended: when load_args returns normally, every option with a
\* non-null parsed value reads back as that value, with a leading "~"
\* expanded for the path-like options, and is not default-origin; every
\* other option keeps its value and its marking, also when load_args raises.
C8_LoadArgs ==
    [][last'.op = "load_args" =>
          \A cfg \in ConfigNames :
              IF cfg \in last'.keys
              THEN last'.raised = "none" =>
                      /\ getattr(values', cfg) = Ok(Normalized(cfg, given'[cfg]))
                      /\ cfg \notin _defaults'
              ELSE /\ values'[cfg] = values[cfg]
                   /\ (cfg \in _defaults' <=> cfg \in _defaults)]_vars

\* load_args has returned after overriding a defaults-file value, with an
\* option it was given no value for still default-origin.
C8_Witness ==
    /\ last.op = "load_args" /\ last.raised = "none"
    /\ last.shadowed # {}
    /\ \E cfg \in _defaults : cfg \notin last.keys /\ values[cfg] # None

(***************************************************************************)
(* Claims about the build property                                         *)
(***************************************************************************)
\* C6: assigning build a name that list_builds() does not return at that
\* moment raises and changes nothing; assigning a name it returns succeeds,
\* and build then reads as that name.
C6_BuildValidation ==
    [][last'.op = "set_build" =>
          LET lb == list_builds(values, fs)
          IN IF lb.raised = "none" /\ \E i \in 1..Len(lb.val) : PyStr(lb.val[i]) = last'.arg
             THEN /\ last'.raised = "none"
                  /\ getattr(values', "build") = Ok(last'.arg)
             ELSE /\ last'.raised # "none"
                  /\ values' = values]_vars

\* build was assigned, and accepted, a name that is on the disk only since a
\* directory was made after the object was.
C6_Witness ==
    /\ last.op = "set_build" /\ last.raised = "none"
    /\ values["build"] = last.arg
    /\ \E d \in DOMAIN Disk :
          /\ getattr(values, "buildpath") = Ok(PyStr(d))
          /\ last.arg[2] \notin DOMAIN Disk[d]

(***************************************************************************)
(* Claims about the reducer's argument vector                              *)
(***************************************************************************)
\* reduce built a command and handed it to the reducer.
Built == last.op = "reduce" /\ last.raised \in {"none", "CalledProcessError"}

\* The flag of a boolean option in the reducer's dialect.
Flag(cfg) ==
    CASE cfg = "any_crash" -> "--any-crash"
      [] cfg = "no_harness" -> "--no-harness"
      [] OTHER -> "--" \o cfg

Without(cmd, tok) == SelectSeq(cmd, LAMBDA t : t # tok)

\* with is without plus one token tok: every other token, and their order,
\* is the same.
OneMoreToken(with, without, tok) ==
    /\ tok \in Elems(with)
    /\ Len(with) = Len(without) + 1
    /\ Without(with, tok) = without

\* The command reduce builds for the store with option cfg changed to v,
\* the testcase and verbosity being those of the last call.
CmdWith(cfg, v) ==
    reduce_cmd([values EXCEPT ![cfg] = v], last.arg[1], last.arg[2]).cmd

BoolValues == {None, PyBool(FALSE), PyBool(TRUE)}

\* C9, as stated: a store that differs from the one reduce was called on in
\* exactly one boolean option gives a command that differs exactly by that
\* option's flag.
C9_ToggleLiteral ==
    Built =>
        \A cfg \in ReduceBools : \A v \in BoolValues \ {values[cfg]} :
            IF Truthy(v) THEN OneMoreToken(CmdWith(cfg, v), last.out, Flag(cfg))
            ELSE OneMoreToken(last.out, CmdWith(cfg, v), Flag(cfg))

\* C9, amended: a store that differs from the one reduce was called on in
\* the truth value of exactly one boolean option gives a command that
\* differs exactly by that option's flag; a store that differs in one boolean
\* option but not in its truth value (unset against false) gives the same
\* command.
C9_Toggle ==
    Built =>
        \A cfg \in ReduceBools : \A v \in BoolValues :
            IF Truthy(v) = Truthy(values[cfg]) THEN CmdWith(cfg, v) = last.out
            ELSE IF Truthy(v) THEN OneMoreToken(CmdWith(cfg, v), last.out, Flag(cfg))
            ELSE OneMoreToken(last.out, CmdWith(cfg, v), Flag(cfg))

\* reduce built a command with the flag of a true option in it, another
\* boolean option being false.
C9_Witness ==
    /\ Built
    /\ \E cfg \in ReduceBools : values[cfg] = PyBool(TRUE) /\ Flag(cfg) \in Elems(last.out)
    /\ \E cfg \in ReduceBools : values[cfg] = PyBool(FALSE)

\* The flag of a value option in the reducer's dialect.
ValueFlag(cfg) ==
    CASE cfg = "strategy" -> "--strategy"
      [] cfg = "reduce_file" -> "--testcase"
      [] cfg = "min_crashes" -> "--min-crashes"
      [] cfg = "repeat" -> "--repeat"
      [] cfg = "sig" -> "--sig"
      [] cfg = "skip" -> "--skip"

Stringified(v) == IF v[1] = "int" THEN decimal(v[2]) ELSE v[2]

Follows(cmd, tok, val) == \E i \in 1..(Len(cmd) - 1) : cmd[i] = tok /\ cmd[i + 1] = val

\* C10: the command holds a value option's flag, followed by the value as
\* a string, exactly when the value is neither null nor zero nor empty; a
\* falsy value never produces the flag.
C10_ValueFlags ==
    Built =>
        \A cfg \in {p[1] : p \in ReduceValues} :
            IF Truthy(values[cfg])
            THEN Follows(last.out, ValueFlag(cfg), Stringified(values[cfg]))
            ELSE ValueFlag(cfg) \notin Elems(last.out)

(***************************************************************************)
(* Claims about building the reduce command                                *)
(***************************************************************************)
\* C11: building the reduce command completes without an exception in every
\* store the layering reaches, also while reducer, prefs, buildpath or build
\* are unset.
C11_BuilderNeverFails ==
    last.op = "reduce" => reduce_cmd(values, last.arg[1], last.arg[2]).raised = "none"

(***************************************************************************)
(* Claims about repro                                                      *)
(***************************************************************************)
\* The scan of the working directory is over.
Scanned == ffp.pc \in {"report", "done"} \/ (ffp.pc = "raised" /\ ffp.pending = "KeyError")

IsLog(n) == startswith(n, "log_") /\ endswith(n, ".txt")

AsanLogs == {n \in DOMAIN ffp.logs : IsLog(n) /\ contains(n, "asan")}

\* C18: whatever the order of the listing and the sizes of the files, when
\* an asan log is among the saved logs the log chosen as crash data is an
\* asan log, a largest one; a stdout or stderr log is never chosen.
C18_AsanLogChosen ==
    Scanned =>
        /\ AsanLogs # {} =>
              \E n \in AsanLogs :
                  /\ ffp.crashdata = PyStr(n)
                  /\ \A m \in AsanLogs : ffp.logs[m] <= ffp.logs[n]
        /\ ffp.crashdata # None =>
              /\ ~contains(ffp.crashdata[2], "stdout")
              /\ ~contains(ffp.crashdata[2], "stderr")

Count(calls, c) == Cardinality({i \in 1..Len(calls) : calls[i] = c})

\* Control has left the try statements of repro.
Left == ffp.pc \in {"scan", "report", "done", "raised"}

CleanedUpOnce ==
    /\ Count(ffp.calls, "clean_up") <= 1
    /\ \A i \in 1..Len(ffp.calls) :
          ffp.calls[i] = "clean_up" => \E j \in 1..(i - 1) : ffp.calls[j] = "close"
    /\ Left => Count(ffp.calls, "clean_up") = 1

\* C19: once the launcher is made, clean_up is called on every path
\* (normal exit, timeout, failed launch, failure of close or of save_logs),
\* exactly once, and close is attempted before it.
C19_Cleanup ==
    /\ []CleanedUpOnce
    /\ (ffp.pc = "launch") ~> (Count(ffp.calls, "clean_up") = 1)

\* clean_up was called although close raised.
C19_Witness ==
    /\ ffp.pc = "raised" /\ ffp.pending = "CloseError"
    /\ ffp.calls[Len(ffp.calls)] = "clean_up"
    /\ ffp.calls[Len(ffp.calls) - 1] = "close"

(***************************************************************************)
(* Claims about list_builds                                                *)
(***************************************************************************)
\* C15: a call of list_builds yields the names of the subdirectories the
\* expanded build path holds at that call, in ascending order, and raises
\* when the build path does not exist or is not a directory.
C15_ListBuilds ==
    (last.op = "list_builds" /\ values["buildpath"] # None) =>
        LET path == getattr(values, "buildpath").val[2]
        IN IF path \in DOMAIN fs
           THEN /\ last.raised = "none"
                /\ Elems(last.out) = {n \in DOMAIN fs[path] : fs[path][n] = "dir"}
                /\ \A i, j \in 1..Len(last.out) : i < j => StrLess(last.out[i], last.out[j])
           ELSE last.raised # "none"

(***************************************************************************)
(* Claims about main                                                       *)
(***************************************************************************)
\* The phases of a run, in their order.
PhaseOrder ==
    <<"loading-defaults", "loading-project-config", "merging-cli-overrides",
      "dispatch", "optional-persist">>

Entered(phase) == \E i \in 1..Len(run.phases) : run.phases[i] = phase

\* The operation a command name stands for.
Chosen ==
    CASE run.cmd = "bcrepro" -> "repro"
      [] run.cmd = "bcreduce" -> "reduce"
      [] run.cmd = "bclistbuilds" -> "list-builds"
      [] OTHER -> IF run.write THEN "write-only" ELSE "no-op-warning"

\* C12: the phases of a run of main are entered in the order
\* loading-defaults, loading-project-config, merging-cli-overrides, dispatch,
\* optional-persist, each at most once and none after a later one; a run
\* that reaches dispatch dispatches exactly one operation, the one its
\* command name stands for; the project file is written only in the persist
\* phase, which follows the dispatched operation and is entered only, and in
\* every run that ends normally, when --write was given.
C12_PhaseOrder ==
    /\ Len(run.phases) <= Len(PhaseOrder)
    /\ run.phases = SubSeq(PhaseOrder, 1, Len(run.phases))
    /\ run.dispatched = IF Entered("dispatch") THEN <<Chosen>> ELSE <<>>
    /\ Entered("optional-persist") => run.write /\ run.pc = "exit"
    /\ files.bugconf # run.before => Entered("optional-persist")
    /\ (run.pc = "exit" /\ run.status = 0) => (Entered("optional-persist") <=> run.write)

\* A run of bcrepro with --write went through its five phases and wrote the
\* project file after repro had returned.
C12_Witness ==
    /\ run.pc = "exit" /\ run.status = 0
    /\ run.phases = PhaseOrder
    /\ run.dispatched = <<"repro">>
    /\ files.bugconf # run.before

\* C13: when the reducer exits with a non-zero status, the process exits
\* with that same status, and the reducer is started at most once in a run.
C13_ReducerStatus ==
    /\ run.invoked <= 1
    /\ (run.pc = "exit" /\ run.invoked = 1 /\ run.rc # 0) => run.status = run.rc

\* C14: making the store loads at most one defaults file, the first of
\* ~/.bugconfrc and ~/.config/bugconf/config that exists; when neither
\* exists the store is made with every option unset and nothing marked
\* default-origin.
C14_DefaultsSearch ==
    Entered("loading-defaults") =>
        /\ Len(run.loaded) <= 1
        /\ files.rc # Absent => run.loaded = <<"rc">>
        /\ (files.rc = Absent /\ files.config # Absent) => run.loaded = <<"config">>
        /\ (files.rc = Absent /\ files.config = Absent) =>
              /\ run.loaded = <<>>
              /\ run.pc = "project" => values = __init__ /\ _defaults = {}

\* C16: with no project file in the working directory the run goes on to
\* the merge of the command line with the store as the defaults left it, and
\* a warning is logged exactly when the command is not bclistbuilds.
C16_MissingProjectFile ==
    [][(run.pc = "project" /\ files.bugconf = Absent) =>
          /\ run'.pc = "merge"
          /\ values' = values
          /\ _defaults' = _defaults
          /\ IF run.cmd = "bclistbuilds" THEN run'.warnings = run.warnings
             ELSE run'.warnings =
                     Append(run.warnings, "No bugconf file found in current directory")]_vars

\* bclistbuilds ran without a project file, listed the builds of the
\* defaults' build path and logged nothing.
C16_Witness ==
    /\ run.before = Absent /\ run.cmd = "bclistbuilds"
    /\ run.dispatched = <<"list-builds">> /\ run.pc = "exit" /\ run.status = 0
    /\ run.out # <<>>
    /\ run.warnings = <<>>

\* "-" followed by n times "v"
RECURSIVE VFlag(_)
VFlag(n) == IF n = 0 THEN "-" ELSE VFlag(n - 1) \o "v"

\* C17: the verbosity handed to the reducer reflects how often --verbose
\* was given: one -v per repetition, or one flag that carries the count.
C17_VerboseCounts ==
    (run.dispatched = <<"reduce">> /\ run.invoked = 1) =>
        \/ Count(run.out, "-v") = run.nverbose
        \/ run.nverbose > 1 /\ Count(run.out, VFlag(run.nverbose)) = 1

\* C20: when --write is given and dump raises, the project file holds what
\* it held before the run.
C20_PersistAtomic ==
    (run.pc = "exit" /\ Entered("optional-persist") /\ run.status # 0) =>
        files.bugconf = run.before

(***************************************************************************)
(* Claims about build and buildpath across the layers                      *)
(***************************************************************************)
\* C21: in every state the layering reaches, the filesystem staying as it
\* is, a build that is set names an entry of the directory the current
\* buildpath resolves to, also after a later layer has replaced buildpath.
C21_BuildUnderBuildpath ==
    values["build"] # None =>
        /\ values["buildpath"] # None
        /\ LET path == getattr(values, "buildpath").val[2]
           IN /\ path \in DOMAIN fs
              /\ values["build"][2] \in DOMAIN fs[path]

====
